---- MODULE Spec2Model ----
(***************************************************************************)
(* Air Canvas (src/air_canvas.py): a single-threaded loop that reads a     *)
(* frame, finds the largest blue contour, appends its centroid to the      *)
(* active stroke, draws every stroke as a polyline, shows the frame and    *)
(* polls one key ('c' clears, 'q' quits).                                  *)
(*                                                                         *)
(* One iteration of the loop is split at its statement boundaries:         *)
(*   read -> detect -> draw -> show -> poll -> read ...                    *)
(* and the code after the loop is  release -> destroy -> done.             *)
(*                                                                         *)
(* A frame is represented by what cv2.findContours returns for it: a       *)
(* sequence of contours, each a sequence of integer pixel points.          *)
(* cv2.contourArea and cv2.moments are computed by Green's formula over    *)
(* the contour's vertices, as OpenCV does; moments are kept as exact       *)
(* integer numerators (2*m00, 6*m10, 6*m01).  For pixel coordinates the    *)
(* double arithmetic of OpenCV is exact up to a relative error of 2^-52,   *)
(* far below the distance 1/(6*m00) between a quotient and an integer.     *)
(***************************************************************************)
EXTENDS Integers, Sequences, FiniteSets, TLC

VARIABLES
    points_to_draw,      \* list of strokes, each a list of points
    current_line_index,  \* index of the active stroke (0-based, as in the code)
    pc,                  \* position of the program
    cap,                 \* capture handle: "open" | "released"
    window,              \* display window: "open" | "destroyed"
    contours,            \* result of findContours for the current frame
                         \* (a value of the iteration: empty between frames)
    frame,               \* line segments drawn on the current frame
    shown,               \* segments of the frame last passed to imshow
    rawkey,              \* last value returned by cv2.waitKey(1)
    key,                 \* rawkey & 0xFF
    releases,            \* number of cap.release() calls made
    steps,               \* history: steps executed in the current iteration
    fed,                 \* history: centroids expected since the last clear
    lastgap              \* history: the last completed frame had no detection

vars == <<points_to_draw, current_line_index, pc, cap, window, contours,
          frame, shown, rawkey, key, releases, steps, fed, lastgap>>

canvas == <<points_to_draw, current_line_index>>

-----------------------------------------------------------------------------
(* Bounds *)

MaxPoints == 3     \* points held by the canvas
MaxContours == 2   \* contours in one frame

-----------------------------------------------------------------------------
(* Program constants *)

MinArea == 500
KeyC == 99
KeyQ == 113
NoKey == 0 - 1

None == <<>>

Pt(x, y) == <<x, y>>

(* Contours a frame can contain.  Vertex order is as stored. *)
PointContour == << Pt(5, 5) >>
Rect500 == << Pt(0, 0), Pt(25, 0), Pt(25, 20), Pt(0, 20) >>
Tri512 == << Pt(0, 0), Pt(0, 32), Pt(32, 0) >>
Rect800 == << Pt(0, 0), Pt(40, 0), Pt(40, 20), Pt(0, 20) >>
Rect1200 == << Pt(0, 0), Pt(0, 20), Pt(60, 20), Pt(60, 0) >>

ContourSet ==
    { PointContour, Rect500, Tri512, Rect800, Rect1200 }

FrameSet ==
    UNION { [1..n -> ContourSet] : n \in 0..MaxContours }

(* Values cv2.waitKey can return: -1 (no key), plain codes, and codes     *)
(* carrying modifier bits above bit 7.                                     *)
RawKeySet ==
    { NoKey, KeyC, KeyQ, 1048576 + KeyC, 65505 }

-----------------------------------------------------------------------------
(* cv2.contourArea / cv2.moments over integer contours *)

Abs(n) == IF n < 0 THEN 0 - n ELSE n

Prev(c, i) == IF i = 1 THEN c[Len(c)] ELSE c[i - 1]

Dxy(c, i) == Prev(c, i)[1] * c[i][2] - c[i][1] * Prev(c, i)[2]
D10(c, i) == Dxy(c, i) * (Prev(c, i)[1] + c[i][1])
D01(c, i) == Dxy(c, i) * (Prev(c, i)[2] + c[i][2])

RECURSIVE SumDxy(_, _)
SumDxy(c, n) == IF n = 0 THEN 0 ELSE Dxy(c, n) + SumDxy(c, n - 1)

RECURSIVE SumD10(_, _)
SumD10(c, n) == IF n = 0 THEN 0 ELSE D10(c, n) + SumD10(c, n - 1)

RECURSIVE SumD01(_, _)
SumD01(c, n) == IF n = 0 THEN 0 ELSE D01(c, n) + SumD01(c, n - 1)

A00(c) == SumDxy(c, Len(c))
A10(c) == SumD10(c, Len(c))
A01(c) == SumD01(c, Len(c))

(* twice cv2.contourArea(c): fabs(a00 * 0.5) *)
contourArea2(c) == Abs(A00(c))

Sgn(n) == IF n < 0 THEN 0 - 1 ELSE 1

(* cv2.moments(c) as exact numerators: m00 = m00x2/2, m10 = m10x6/6 *)
moments(c) ==
    IF A00(c) = 0
    THEN [m00x2 |-> 0, m10x6 |-> 0, m01x6 |-> 0]
    ELSE [m00x2 |-> Sgn(A00(c)) * A00(c),
          m10x6 |-> Sgn(A00(c)) * A10(c),
          m01x6 |-> Sgn(A00(c)) * A01(c)]

(* Variant: rounds the quotient up instead of truncating *)
IntTruncCeil(n, d) == (n + d - 1) \div d

(* Python int(n / d) for d > 0: truncation toward zero *)
IntTrunc(n, d) ==
    IF n >= 0 THEN n \div d ELSE 0 - ((0 - n) \div d)

(* max(contours, key=cv2.contourArea): first contour of maximal area *)
MaxIndex(cs) ==
    CHOOSE i \in 1..Len(cs) :
        /\ \A j \in 1..Len(cs) : contourArea2(cs[j]) <= contourArea2(cs[i])
        /\ \A j \in 1..(i - 1) : contourArea2(cs[j]) < contourArea2(cs[i])

largest_contour(cs) == cs[MaxIndex(cs)]

(* Variant: the area test written >= 500 instead of > 500 *)
CentreAtLeast(cs) ==
    IF Len(cs) = 0 THEN None
    ELSE IF ~(contourArea2(largest_contour(cs)) >= 2 * MinArea) THEN None
    ELSE LET m == moments(largest_contour(cs)) IN
         IF m.m00x2 = 0 THEN None
         ELSE Pt(IntTrunc(m.m10x6, 3 * m.m00x2),
                 IntTrunc(m.m01x6, 3 * m.m00x2))

(* Lines 60-72: the point to append, or None *)
Centre(cs) ==
    IF Len(cs) = 0 THEN None
    ELSE IF ~(contourArea2(largest_contour(cs)) > 2 * MinArea) THEN None
    ELSE LET m == moments(largest_contour(cs)) IN
         IF m.m00x2 = 0 THEN None
         ELSE Pt(IntTrunc(m.m10x6, 3 * m.m00x2),
                 IntTrunc(m.m01x6, 3 * m.m00x2))

-----------------------------------------------------------------------------
(* Lines 79-84: the segments drawn, in drawing order *)

(* Variant: the inner loop starts at range(2, len(line)) *)
LineSegmentsFromTwo(line) ==
    [i \in 1..(IF Len(line) < 2 THEN 0 ELSE Len(line) - 2)
        |-> <<line[i + 1], line[i + 2]>>]

LineSegments(line) ==
    [i \in 1..(IF Len(line) = 0 THEN 0 ELSE Len(line) - 1)
        |-> <<line[i], line[i + 1]>>]

RECURSIVE DrawLines(_)
DrawLines(strokes) ==
    IF Len(strokes) = 0 THEN <<>>
    ELSE LineSegments(Head(strokes)) \o DrawLines(Tail(strokes))

TotalPoints(strokes) ==
    IF Len(strokes) = 0 THEN 0
    ELSE LET RECURSIVE Sum(_)
             Sum(n) == IF n = 0 THEN 0 ELSE Len(strokes[n]) + Sum(n - 1)
         IN Sum(Len(strokes))

(* Variant: a point equal to the stroke's last point is dropped *)
AppendAtDedup(strokes, index, p) ==
    IF Len(strokes[index + 1]) > 0
       /\ strokes[index + 1][Len(strokes[index + 1])] = p
    THEN strokes
    ELSE [strokes EXCEPT ![index + 1] = Append(@, p)]

(* Variant: the stroke is overwritten by the new point *)
AppendAtReplace(strokes, index, p) ==
    [strokes EXCEPT ![index + 1] = <<p>>]

(* Variant: every point opens a new stroke *)
AppendAtNewStroke(strokes, index, p) ==
    IF Len(strokes[index + 1]) = 0
    THEN [strokes EXCEPT ![index + 1] = Append(@, p)]
    ELSE Append(strokes, <<p>>)

(* list[index].append(p) with a 0-based index *)
AppendAt(strokes, index, p) ==
    [strokes EXCEPT ![index + 1] = Append(@, p)]

(* rawkey & 0xFF on a Python int (two's complement, unbounded) *)
Mask8(k) == k % 256

(* Variant: the final branch is a bare else that quits *)
KeyCommandElseQuit(k) ==
    IF k = KeyC THEN "clear" ELSE "quit"

(* Variant: the clear branch tests key != ord('q') *)
KeyCommandNotQ(k) ==
    IF k # KeyQ THEN "clear" ELSE "quit"

(* Lines 97-103: what the masked key does *)
KeyCommand(k) ==
    IF k = KeyC THEN "clear" ELSE IF k = KeyQ THEN "quit" ELSE "none"

(* Variant: the clear assigns [] instead of [[]] *)
cleared_pointsEmptyList == <<>>

(* Line 99: the value a clear assigns to points_to_draw *)
cleared_points == << <<>> >>

-----------------------------------------------------------------------------
(* Expected centroid of a frame, as the design states it: floor of the     *)
(* moment quotients of the largest contour when its area exceeds MinArea.  *)

ExpectedCentre(cs) ==
    IF Len(cs) = 0 THEN None
    ELSE LET c == cs[MaxIndex(cs)]
             a == A00(c)
         IN IF Abs(a) <= 2 * MinArea THEN None
            ELSE Pt((Sgn(a) * A10(c)) \div (3 * Abs(a)),
                    (Sgn(a) * A01(c)) \div (3 * Abs(a)))

-----------------------------------------------------------------------------

Init ==
    /\ points_to_draw = << <<>> >>
    /\ current_line_index = 0
    /\ pc = "read"
    /\ cap = "open"
    /\ window = "open"
    /\ contours = <<>>
    /\ frame = <<>>
    /\ shown = <<>>
    /\ rawkey = NoKey
    /\ key = Mask8(NoKey)
    /\ releases = 0
    /\ steps = <<>>
    /\ fed = <<>>
    /\ lastgap = FALSE

(* Line 36-57: a frame is read and its contours extracted *)
ReadFrame ==
    /\ pc = "read"
    /\ \E cs \in FrameSet :
        /\ TotalPoints(points_to_draw) < MaxPoints \/ ExpectedCentre(cs) = None
        /\ contours' = cs
        /\ fed' = IF ExpectedCentre(cs) = None THEN fed
                  ELSE Append(fed, ExpectedCentre(cs))
    /\ frame' = <<>>
    /\ steps' = <<"read">>
    /\ pc' = "detect"
    /\ UNCHANGED <<points_to_draw, current_line_index, cap, window, shown,
                   rawkey, key, releases, lastgap>>

(* Lines 36-39: cap.read() fails, break *)
ReadFail ==
    /\ pc = "read"
    /\ steps' = <<"readfail">>
    /\ pc' = "release"
    /\ UNCHANGED <<points_to_draw, current_line_index, cap, window, contours,
                   frame, shown, rawkey, key, releases, fed, lastgap>>

(* Lines 60-75 *)
Detect ==
    /\ pc = "detect"
    /\ points_to_draw' =
          IF Centre(contours) = None THEN points_to_draw
          ELSE AppendAt(points_to_draw, current_line_index, Centre(contours))
    /\ steps' = Append(steps, "detect")
    /\ pc' = "draw"
    /\ UNCHANGED <<current_line_index, cap, window, contours, frame, shown,
                   rawkey, key, releases, fed, lastgap>>

(* Lines 79-89 *)
Draw ==
    /\ pc = "draw"
    /\ frame' = DrawLines(points_to_draw)
    /\ steps' = Append(steps, "draw")
    /\ pc' = "show"
    /\ UNCHANGED <<points_to_draw, current_line_index, cap, window, contours,
                   shown, rawkey, key, releases, fed, lastgap>>

(* Line 92 *)
Show ==
    /\ pc = "show"
    /\ shown' = frame
    /\ steps' = Append(steps, "show")
    /\ pc' = "poll"
    /\ UNCHANGED <<points_to_draw, current_line_index, cap, window, contours,
                   frame, rawkey, key, releases, fed, lastgap>>

(* Lines 96-103.  The frame's contours are not used after this point. *)
Poll ==
    /\ pc = "poll"
    /\ \E k \in RawKeySet :
        /\ rawkey' = k
        /\ key' = Mask8(k)
        /\ IF KeyCommand(Mask8(k)) = "clear"
           THEN /\ points_to_draw' = cleared_points
                /\ current_line_index' = 0
                /\ fed' = <<>>
                /\ pc' = "read"
           ELSE IF KeyCommand(Mask8(k)) = "quit"
           THEN /\ pc' = "release"
                /\ UNCHANGED <<points_to_draw, current_line_index, fed>>
           ELSE /\ pc' = "read"
                /\ UNCHANGED <<points_to_draw, current_line_index, fed>>
    /\ steps' = Append(steps, "poll")
    /\ contours' = <<>>
    /\ lastgap' = (ExpectedCentre(contours) = None)
    /\ UNCHANGED <<cap, window, frame, shown, releases>>

(* Line 108 *)
Release ==
    /\ pc = "release"
    /\ cap' = "released"
    /\ releases' = releases + 1
    /\ pc' = "destroy"
    /\ UNCHANGED <<points_to_draw, current_line_index, window, contours,
                   frame, shown, rawkey, key, steps, fed, lastgap>>

(* Line 110 *)
DestroyAllWindows ==
    /\ pc = "destroy"
    /\ window' = "destroyed"
    /\ pc' = "done"
    /\ UNCHANGED <<points_to_draw, current_line_index, cap, contours, frame,
                   shown, rawkey, key, releases, steps, fed, lastgap>>

Next ==
    \/ ReadFrame
    \/ ReadFail
    \/ Detect
    \/ Draw
    \/ Show
    \/ Poll
    \/ Release
    \/ DestroyAllWindows

Spec == Init /\ [][Next]_vars

(* An exception raised inside an iteration (KeyboardInterrupt, cv2.error): *)
(* the script has no try/finally, so lines 108-110 are skipped.            *)
Interrupt ==
    /\ pc \in {"detect", "draw", "show", "poll"}
    /\ pc' = "crashed"
    /\ UNCHANGED <<points_to_draw, current_line_index, cap, window, contours,
                   frame, shown, rawkey, key, releases, steps, fed, lastgap>>

NextInt ==
    \/ Next
    \/ Interrupt

SpecInt == Init /\ [][NextInt]_vars

-----------------------------------------------------------------------------
(* Vocabulary of the properties *)

Active == points_to_draw[current_line_index + 1]

IsPrefix(s, t) == Len(s) <= Len(t) /\ SubSeq(t, 1, Len(s)) = s

Running == {"read", "detect", "draw", "show", "poll"}

FullIteration == <<"read", "detect", "draw", "show", "poll">>

StepAfter(p) ==
    CASE p = "detect" -> "draw"
      [] p = "draw" -> "show"
      [] p = "show" -> "poll"

(* the frame gives no detection: no contour, largest area <= 500, m00 = 0 *)
NoDetection(cs) ==
    \/ Len(cs) = 0
    \/ Abs(A00(cs[MaxIndex(cs)])) <= 2 * 500
    \/ A00(cs[MaxIndex(cs)]) = 0

(* number of segments the strokes before stroke n contribute *)
RECURSIVE Offset(_, _)
Offset(strokes, n) ==
    IF n <= 1 THEN 0
    ELSE Offset(strokes, n - 1)
         + (IF Len(strokes[n - 1]) < 2 THEN 0 ELSE Len(strokes[n - 1]) - 1)

cs_largest == contours[MaxIndex(contours)]

PollCount == Cardinality({i \in 1..Len(steps) : steps[i] = "poll"})

-----------------------------------------------------------------------------
(* C1: a poll that reads 'c' leaves exactly one empty stroke with the      *)
(* active index 0, also when the same frame appended a point, and the      *)
(* loop goes on; every later render draws only segments between points     *)
(* recorded after that clear.                                              *)
C1_ClearResetsCanvas ==
    /\ [][pc = "poll" /\ pc' # "poll" /\ key' = KeyC
            => /\ points_to_draw' = << <<>> >>
               /\ current_line_index' = 0
               /\ pc' = "read"]_vars
    /\ [](pc \in {"show", "poll"}
            => /\ Len(frame) = (IF Len(fed) = 0 THEN 0 ELSE Len(fed) - 1)
               /\ \A i \in 1..Len(frame) : frame[i] = <<fed[i], fed[i + 1]>>)

C1_Witness ==
    /\ pc = "read"
    /\ key = KeyC
    /\ Len(shown) >= 1
    /\ ~lastgap
    /\ points_to_draw = << <<>> >>
    /\ current_line_index = 0

(* C2: there is always at least one stroke and the active index is valid;  *)
(* in every step the active stroke's old contents are a prefix of its new  *)
(* contents, unless the step is a clear, which empties it.                 *)
C2_StrokeOnlyGrows ==
    /\ [](/\ Len(points_to_draw) >= 1
          /\ current_line_index \in 0..(Len(points_to_draw) - 1))
    /\ [][\/ IsPrefix(Active, Active')
          \/ (pc = "poll" /\ key' = KeyC /\ Active' = <<>>)]_vars

C2_Witness ==
    /\ pc = "draw"
    /\ key = KeyC
    /\ Len(shown) >= 2
    /\ Len(Active) = 1

(* C3: a frame with no contour, with largest area <= 500 (500 included)    *)
(* or with m00 = 0 leaves the canvas unchanged in its detection step, and  *)
(* the frame still goes through draw, show and poll.                       *)
C3_NoDetectionNoMutation ==
    /\ [][(pc \in {"detect", "draw", "show"}) /\ NoDetection(contours)
            => /\ canvas' = canvas
               /\ pc' \in {pc, StepAfter(pc)}]_vars
    /\ [](pc = "poll" /\ NoDetection(contours)
            => /\ steps = <<"read", "detect", "draw", "show">>
               /\ shown = frame)

C3_Witness ==
    /\ pc = "read"
    /\ steps = FullIteration
    /\ lastgap
    /\ Len(Active) >= 2
    /\ Len(shown) = Len(Active) - 1
    /\ shown[1] = <<Active[1], Active[2]>>

(* C4: a frame appends at most one point, exactly one when the largest     *)
(* contour has area > 500; without a clear in between the active stroke    *)
(* is the sequence of the frames' centroids in frame order, repeated       *)
(* points included.                                                        *)
C4_StrokeIsFedSequence ==
    /\ [][Len(Active') <= Len(Active) + 1]_vars
    /\ [][pc = "detect" /\ pc' # "detect" /\ ExpectedCentre(contours) # None
            => Active' = Append(Active, ExpectedCentre(contours))]_vars
    /\ [](pc # "detect" => Active = fed)

C4_Witness ==
    /\ Len(Active) >= 3
    /\ Active[1] = Active[2]
    /\ Active[3] # Active[2]

(* C5: the capture handle is released exactly once on every exit path,     *)
(* an error raised inside an iteration included.                           *)
C5_ReleasedOnEveryExit ==
    /\ releases <= 1
    /\ pc \in {"done", "crashed"} => (cap = "released" /\ releases = 1)

C7_Original ==
    [][pc = "poll" /\ pc' # "poll" /\ rawkey' \notin {99, 113}
          => canvas' = canvas /\ pc' = "read"]_vars

(* C7 amended: every raw key code whose low 8 bits are neither the code    *)
(* of 'c' nor the code of 'q' leaves the canvas unchanged and the loop     *)
(* continues; the key is polled exactly once per acquired frame.           *)
C7_OtherKeysNoEffect ==
    /\ [][pc = "poll" /\ pc' # "poll" /\ (rawkey' % 256) \notin {99, 113}
            => canvas' = canvas /\ pc' = "read"]_vars
    /\ [](PollCount <= 1)
    /\ [](pc = "read" /\ steps # <<>> => steps = FullIteration)

C7_Witness ==
    /\ pc = "read"
    /\ rawkey = 65505
    /\ steps = FullIteration
    /\ Len(Active) >= 1

(* C8: the render draws, for every stroke of length k >= 2, exactly k-1    *)
(* segments, the i-th joining point i-1 to point i, nothing for shorter    *)
(* strokes, and leaves the canvas unchanged; a point appended in a frame   *)
(* is joined to its predecessor in that frame's output.                    *)
C8_RenderSegments ==
    /\ [](pc \in {"show", "poll"}
            => /\ Len(frame) = Offset(points_to_draw, Len(points_to_draw) + 1)
               /\ \A n \in 1..Len(points_to_draw) :
                    \A i \in 1..(Len(points_to_draw[n]) - 1) :
                        frame[Offset(points_to_draw, n) + i]
                            = <<points_to_draw[n][i], points_to_draw[n][i + 1]>>)
    /\ [](pc = "poll" /\ ExpectedCentre(contours) # None /\ Len(fed) >= 2
            => shown[Len(shown)]
                 = <<fed[Len(fed) - 1], ExpectedCentre(contours)>>)
    /\ [][pc = "draw" => canvas' = canvas]_vars

C8_Witness ==
    /\ pc = "poll"
    /\ Len(Active) = 3
    /\ Len(frame) = 2
    /\ ExpectedCentre(contours) # None

(* C9: when the largest contour has area > 500, m00 is not zero and the    *)
(* point recorded is (floor(m10/m00), floor(m01/m00)); the moments the     *)
(* quotients are taken of are not negative.                                *)
C9_CentroidIsFloor ==
    (pc \in {"draw", "show", "poll"} /\ Len(contours) > 0
        /\ Abs(A00(cs_largest)) > 2 * 500)
    => /\ moments(cs_largest).m00x2 # 0
       /\ moments(cs_largest).m10x6 >= 0
       /\ moments(cs_largest).m01x6 >= 0
       /\ Len(Active) >= 1
       /\ Active[Len(Active)]
            = << (Sgn(A00(cs_largest)) * A10(cs_largest))
                    \div (3 * Abs(A00(cs_largest))),
                 (Sgn(A00(cs_largest)) * A01(cs_largest))
                    \div (3 * Abs(A00(cs_largest))) >>

C9_Witness ==
    /\ pc = "draw"
    /\ Len(contours) > 0
    /\ cs_largest = Tri512
    /\ Len(Active) >= 1
    /\ Active[Len(Active)] = Pt(10, 10)

(* C10: the active index is 0 and there is exactly one stroke in every     *)
(* state; frames without a detection start no new stroke, so a detection   *)
(* after a gap is joined to the last point before the gap.                 *)
C10_SingleStroke ==
    /\ [](current_line_index = 0 /\ Len(points_to_draw) = 1)
    /\ [](pc \in {"show", "poll"} /\ Len(fed) >= 2
            => /\ Len(frame) = Len(fed) - 1
               /\ frame[Len(frame)] = <<fed[Len(fed) - 1], fed[Len(fed)]>>)
    /\ [][(pc \in {"detect", "draw", "show"}) /\ ExpectedCentre(contours) = None
            => Len(frame') <= Len(shown) \/ pc' # "show"]_vars

C10_Witness ==
    /\ pc = "poll"
    /\ lastgap
    /\ ExpectedCentre(contours) = None
    /\ Active = << Pt(10, 10), Pt(20, 10), Pt(30, 10) >>
    /\ frame = << <<Pt(10, 10), Pt(20, 10)>>, <<Pt(20, 10), Pt(30, 10)>> >>
    /\ shown = frame

====
